---------------------------- MODULE Spec2Model ----------------------------
(***************************************************************************)
(* Model of src/ansi/root.py: the ANSI escape sequence encoder.            *)
(*                                                                         *)
(* A Python string is a sequence of one-character strings; the escape      *)
(* character "\x1b" is the single token "ESC".  The module attributes ESC, *)
(* CSI and OSC are looked up each time a function body runs, so they are   *)
(* state; (op, args, result, raised) is the latest call and its outcome,   *)
(* and calls counts the calls made since the module was imported.          *)
(***************************************************************************)
EXTENDS Integers, Sequences, FiniteSets

VARIABLES ESC, CSI, OSC, op, args, result, raised, calls

vars == <<ESC, CSI, OSC, op, args, result, raised, calls>>

(***************************************************************************)
(* Bounds of the model.                                                    *)
(***************************************************************************)
\* largest argument of the contiguous range of arguments
MaxArg == 12
\* the contiguous range of arguments starts at -MaxNeg
MaxNeg == 2
\* number of calls in one behaviour
MaxCalls == 2

\* arguments with three and four decimal digits
LargeArgs == {100, 1024}

IntArgs == ((0 - MaxNeg) .. MaxArg) \cup LargeArgs

\* argument lists of a function without parameters
NoArgs == {<< >>}
\* argument lists of a function with one required parameter
OneArg == {<<n>> : n \in IntArgs}
\* argument lists of a function with one defaulted parameter
OptArg == NoArgs \cup OneArg
\* argument lists of a function with two defaulted parameters
OptArgs2 == OptArg \cup {<<y, x>> : y \in IntArgs, x \in IntArgs}

(***************************************************************************)
(* Python built-ins the function bodies use.                               *)
(***************************************************************************)
DigitChars == <<"0", "1", "2", "3", "4", "5", "6", "7", "8", "9">>

RECURSIVE digits(_)
\* the decimal digits of n >= 0, most significant first
digits(n) ==
    IF n < 10 THEN <<DigitChars[n + 1]>>
    ELSE digits(n \div 10) \o <<DigitChars[(n % 10) + 1]>>

\* str(n) of an int: a minus sign for a negative n, then the digits
str(n) == IF n < 0 THEN <<"-">> \o digits(0 - n) ELSE digits(n)

\* the value a parameter is bound to: the i-th positional argument, or the
\* default of the signature when the call does not supply it
Param(a, i, default) == IF Len(a) >= i THEN a[i] ELSE default

(***************************************************************************)
(* The functions, each with the list a of the positional arguments.        *)
(***************************************************************************)
reverse_index(a) == ESC \o <<"M">>

save_cursor(a) == ESC \o <<"7">>

restore_cursor(a) == ESC \o <<"8">>

\* cursor_up with the count of earlier calls leaking into the parameter
cursor_up_counting(a) == CSI \o str(Param(a, 1, 1) + calls) \o <<"A">>

cursor_up(a) == CSI \o str(Param(a, 1, 1)) \o <<"A">>

cursor_down(a) == CSI \o str(Param(a, 1, 1)) \o <<"B">>

\* cursor_forward with a count below 1 replaced by the default
cursor_forward_clamped(a) ==
    LET n == Param(a, 1, 1)
    IN  CSI \o str(IF n < 1 THEN 1 ELSE n) \o <<"C">>

cursor_forward(a) == CSI \o str(Param(a, 1, 1)) \o <<"C">>

cursor_backward(a) == CSI \o str(Param(a, 1, 1)) \o <<"D">>

cursos_next_line(a) == CSI \o str(Param(a, 1, 1)) \o <<"D">>

cursor_prev_line(a) == CSI \o str(Param(a, 1, 1)) \o <<"D">>

cursor_horz_abs(a) == CSI \o str(Param(a, 1, 1)) \o <<"G">>

cursor_vert_abs(a) == CSI \o str(Param(a, 1, 1)) \o <<"d">>

\* cursor_pos with the column rendered before the row
cursor_pos_swapped(a) ==
    LET y == Param(a, 1, 1)
        x == Param(a, 2, 1)
    IN  CSI \o str(x) \o <<";">> \o str(y) \o <<"H">>

\* cursor_pos with 0 as the default column
cursor_pos_default0(a) ==
    LET y == Param(a, 1, 1)
        x == Param(a, 2, 0)
    IN  CSI \o str(y) \o <<";">> \o str(x) \o <<"H">>

cursor_pos(a) ==
    LET y == Param(a, 1, 1)
        x == Param(a, 2, 1)
    IN  CSI \o str(y) \o <<";">> \o str(x) \o <<"H">>

cursor_hvp(a) ==
    LET y == Param(a, 1, 1)
        x == Param(a, 2, 1)
    IN  CSI \o str(y) \o <<";">> \o str(x) \o <<"m">>

blink_on(a) == CSI \o <<"?", "1", "2", "h">>

blink_off(a) == CSI \o <<"?", "1", "2", "l">>

show_cursor(a) == CSI \o <<"?", "2", "5", "h">>

hide_cursor(a) == CSI \o <<"?", "2", "5", "l">>

decscusr(a) == CSI \o str(a[1]) \o <<" ", "q">>

user_shape(a) == decscusr(<<0>>)

blinking_block(a) == decscusr(<<1>>)

steady_block(a) == decscusr(<<2>>)

blinking_underline(a) == decscusr(<<3>>)

steady_underline(a) == decscusr(<<4>>)

blinking_bar(a) == decscusr(<<5>>)

\* steady_bar with the code of blinking_bar
steady_bar_code5(a) == decscusr(<<5>>)

steady_bar(a) == decscusr(<<6>>)

scroll_up(a) == CSI \o str(Param(a, 1, 1)) \o <<"S">>

\* scroll_down with the terminator of scroll_up
scroll_down_as_S(a) == CSI \o str(Param(a, 1, 1)) \o <<"S">>

scroll_down(a) == CSI \o str(Param(a, 1, 1)) \o <<"T">>

insert_character(a) == CSI \o str(Param(a, 1, 1)) \o <<"@">>

delete_character(a) == CSI \o str(Param(a, 1, 1)) \o <<"P">>

erase_character(a) == CSI \o str(Param(a, 1, 1)) \o <<"X">>

insert_line(a) == CSI \o str(Param(a, 1, 1)) \o <<"L">>

delete_line(a) == CSI \o str(Param(a, 1, 1)) \o <<"M">>

erase_in_display(a) == CSI \o str(a[1]) \o <<"J">>

erase_in_line(a) == CSI \o str(a[1]) \o <<"K">>

\* default built on the OSC prefix
default_osc(a) == OSC \o <<"0", "m">>

default(a) == CSI \o <<"0", "m">>

(***************************************************************************)
(* Calling a function by name: the module's catalog.                       *)
(***************************************************************************)
Apply(o, a) ==
    CASE o = "reverse_index" -> reverse_index(a)
      [] o = "save_cursor" -> save_cursor(a)
      [] o = "restore_cursor" -> restore_cursor(a)
      [] o = "cursor_up" -> cursor_up(a)
      [] o = "cursor_down" -> cursor_down(a)
      [] o = "cursor_forward" -> cursor_forward(a)
      [] o = "cursor_backward" -> cursor_backward(a)
      [] o = "cursos_next_line" -> cursos_next_line(a)
      [] o = "cursor_prev_line" -> cursor_prev_line(a)
      [] o = "cursor_horz_abs" -> cursor_horz_abs(a)
      [] o = "cursor_vert_abs" -> cursor_vert_abs(a)
      [] o = "cursor_pos" -> cursor_pos(a)
      [] o = "cursor_hvp" -> cursor_hvp(a)
      [] o = "blink_on" -> blink_on(a)
      [] o = "blink_off" -> blink_off(a)
      [] o = "show_cursor" -> show_cursor(a)
      [] o = "hide_cursor" -> hide_cursor(a)
      [] o = "decscusr" -> decscusr(a)
      [] o = "user_shape" -> user_shape(a)
      [] o = "blinking_block" -> blinking_block(a)
      [] o = "steady_block" -> steady_block(a)
      [] o = "blinking_underline" -> blinking_underline(a)
      [] o = "steady_underline" -> steady_underline(a)
      [] o = "blinking_bar" -> blinking_bar(a)
      [] o = "steady_bar" -> steady_bar(a)
      [] o = "scroll_up" -> scroll_up(a)
      [] o = "scroll_down" -> scroll_down(a)
      [] o = "insert_character" -> insert_character(a)
      [] o = "delete_character" -> delete_character(a)
      [] o = "erase_character" -> erase_character(a)
      [] o = "insert_line" -> insert_line(a)
      [] o = "delete_line" -> delete_line(a)
      [] o = "erase_in_display" -> erase_in_display(a)
      [] o = "erase_in_line" -> erase_in_line(a)
      [] o = "default" -> default(a)

(***************************************************************************)
(* The state after the module is imported: the three prefix constants are  *)
(* bound and no function has been called.                                  *)
(***************************************************************************)
Init ==
    /\ ESC = <<"ESC">>
    /\ CSI = ESC \o <<"[">>
    /\ OSC = ESC \o <<"]">>
    /\ op = "none"
    /\ args = << >>
    /\ result = << >>
    /\ raised = FALSE
    /\ calls = 0

\* A call of o with the arguments a that returns r.  No function body holds a
\* raise statement or an assignment to a module attribute: the call returns
\* its string and leaves ESC, CSI and OSC as they are.
Return(o, a, r) ==
    /\ calls < MaxCalls
    /\ op' = o
    /\ args' = a
    /\ result' = r
    /\ raised' = FALSE
    /\ calls' = calls + 1
    /\ UNCHANGED <<ESC, CSI, OSC>>

(***************************************************************************)
(* One action per function of the module.                                  *)
(***************************************************************************)
Call_reverse_index == \E a \in NoArgs : Return("reverse_index", a, reverse_index(a))

Call_save_cursor == \E a \in NoArgs : Return("save_cursor", a, save_cursor(a))

Call_restore_cursor == \E a \in NoArgs : Return("restore_cursor", a, restore_cursor(a))

Call_cursor_up == \E a \in OptArg : Return("cursor_up", a, cursor_up(a))

Call_cursor_down == \E a \in OptArg : Return("cursor_down", a, cursor_down(a))

Call_cursor_forward == \E a \in OptArg : Return("cursor_forward", a, cursor_forward(a))

Call_cursor_backward == \E a \in OptArg : Return("cursor_backward", a, cursor_backward(a))

Call_cursos_next_line == \E a \in OptArg : Return("cursos_next_line", a, cursos_next_line(a))

Call_cursor_prev_line == \E a \in OptArg : Return("cursor_prev_line", a, cursor_prev_line(a))

Call_cursor_horz_abs == \E a \in OptArg : Return("cursor_horz_abs", a, cursor_horz_abs(a))

Call_cursor_vert_abs == \E a \in OptArg : Return("cursor_vert_abs", a, cursor_vert_abs(a))

Call_cursor_pos == \E a \in OptArgs2 : Return("cursor_pos", a, cursor_pos(a))

Call_cursor_hvp == \E a \in OptArgs2 : Return("cursor_hvp", a, cursor_hvp(a))

Call_blink_on == \E a \in NoArgs : Return("blink_on", a, blink_on(a))

Call_blink_off == \E a \in NoArgs : Return("blink_off", a, blink_off(a))

Call_show_cursor == \E a \in NoArgs : Return("show_cursor", a, show_cursor(a))

Call_hide_cursor == \E a \in NoArgs : Return("hide_cursor", a, hide_cursor(a))

Call_decscusr == \E a \in OneArg : Return("decscusr", a, decscusr(a))

Call_user_shape == \E a \in NoArgs : Return("user_shape", a, user_shape(a))

Call_blinking_block == \E a \in NoArgs : Return("blinking_block", a, blinking_block(a))

Call_steady_block == \E a \in NoArgs : Return("steady_block", a, steady_block(a))

Call_blinking_underline == \E a \in NoArgs : Return("blinking_underline", a, blinking_underline(a))

Call_steady_underline == \E a \in NoArgs : Return("steady_underline", a, steady_underline(a))

Call_blinking_bar == \E a \in NoArgs : Return("blinking_bar", a, blinking_bar(a))

Call_steady_bar == \E a \in NoArgs : Return("steady_bar", a, steady_bar(a))

Call_scroll_up == \E a \in OptArg : Return("scroll_up", a, scroll_up(a))

Call_scroll_down == \E a \in OptArg : Return("scroll_down", a, scroll_down(a))

Call_insert_character == \E a \in OptArg : Return("insert_character", a, insert_character(a))

Call_delete_character == \E a \in OptArg : Return("delete_character", a, delete_character(a))

Call_erase_character == \E a \in OptArg : Return("erase_character", a, erase_character(a))

Call_insert_line == \E a \in OptArg : Return("insert_line", a, insert_line(a))

Call_delete_line == \E a \in OptArg : Return("delete_line", a, delete_line(a))

Call_erase_in_display == \E a \in OneArg : Return("erase_in_display", a, erase_in_display(a))

Call_erase_in_line == \E a \in OneArg : Return("erase_in_line", a, erase_in_line(a))

Call_default == \E a \in NoArgs : Return("default", a, default(a))

Next ==
    \/ Call_reverse_index
    \/ Call_save_cursor
    \/ Call_restore_cursor
    \/ Call_cursor_up
    \/ Call_cursor_down
    \/ Call_cursor_forward
    \/ Call_cursor_backward
    \/ Call_cursos_next_line
    \/ Call_cursor_prev_line
    \/ Call_cursor_horz_abs
    \/ Call_cursor_vert_abs
    \/ Call_cursor_pos
    \/ Call_cursor_hvp
    \/ Call_blink_on
    \/ Call_blink_off
    \/ Call_show_cursor
    \/ Call_hide_cursor
    \/ Call_decscusr
    \/ Call_user_shape
    \/ Call_blinking_block
    \/ Call_steady_block
    \/ Call_blinking_underline
    \/ Call_steady_underline
    \/ Call_blinking_bar
    \/ Call_steady_bar
    \/ Call_scroll_up
    \/ Call_scroll_down
    \/ Call_insert_character
    \/ Call_delete_character
    \/ Call_erase_character
    \/ Call_insert_line
    \/ Call_delete_line
    \/ Call_erase_in_display
    \/ Call_erase_in_line
    \/ Call_default

Spec == Init /\ [][Next]_vars

(***************************************************************************)
(* What the claims speak of: the wire format, stated on the characters of  *)
(* a returned string.                                                      *)
(***************************************************************************)
Digits == {"0", "1", "2", "3", "4", "5", "6", "7", "8", "9"}

\* the characters a parameter section is made of
ParamChars == Digits \cup {"-", ";"}

DigitValue(c) == CHOOSE d \in 0 .. 9 : DigitChars[d + 1] = c

RECURSIVE DecimalValue(_)
\* the number a string of digits reads as
DecimalValue(s) ==
    IF Len(s) = 0 THEN 0
    ELSE 10 * DecimalValue(SubSeq(s, 1, Len(s) - 1)) + DigitValue(s[Len(s)])

\* s is the canonical unsigned rendering of n >= 0: digits only, no leading
\* zero, reading as n
IsUnsigned(s, n) ==
    /\ Len(s) >= 1
    /\ \A i \in 1 .. Len(s) : s[i] \in Digits
    /\ (Len(s) > 1 => s[1] # "0")
    /\ DecimalValue(s) = n

\* s is the decimal rendering of n: unsigned for n >= 0, a minus sign and
\* the rendering of -n for n < 0
IsDecimal(s, n) ==
    IF n < 0
    THEN Len(s) >= 2 /\ s[1] = "-" /\ IsUnsigned(Tail(s), 0 - n)
    ELSE IsUnsigned(s, n)

\* the two characters every CSI sequence starts with
WireCSI == <<"ESC", "[">>

\* r is ESC [ + decimal n + t and nothing else
Shape1(r, n, t) ==
    /\ Len(r) > 2 + Len(t)
    /\ SubSeq(r, 1, 2) = WireCSI
    /\ SubSeq(r, Len(r) - Len(t) + 1, Len(r)) = t
    /\ IsDecimal(SubSeq(r, 3, Len(r) - Len(t)), n)

\* r is ESC [ + decimal y + ; + decimal x + t and nothing else
Shape2(r, y, x, t) ==
    /\ Len(r) > 2 + Len(t)
    /\ SubSeq(r, 1, 2) = WireCSI
    /\ SubSeq(r, Len(r) - Len(t) + 1, Len(r)) = t
    /\ \E k \in 3 .. (Len(r) - Len(t)) :
          /\ r[k] = ";"
          /\ IsDecimal(SubSeq(r, 3, k - 1), y)
          /\ IsDecimal(SubSeq(r, k + 1, Len(r) - Len(t)), x)

\* the last character of a string
Last(r) == r[Len(r)]

\* the functions with one defaulted count
SingleCountOps ==
    {"cursor_up", "cursor_down", "cursor_forward", "cursor_backward",
     "cursos_next_line", "cursor_prev_line", "cursor_horz_abs",
     "cursor_vert_abs", "scroll_up", "scroll_down", "insert_character",
     "delete_character", "erase_character", "insert_line", "delete_line"}

\* the functions with two defaulted coordinates
PositionOps == {"cursor_pos", "cursor_hvp"}

\* the functions with a mode selector
EraseOps == {"erase_in_display", "erase_in_line"}

\* the functions built on ESC alone
PureEscOps == {"reverse_index", "save_cursor", "restore_cursor"}

\* a call has been made
Called == op # "none"

\* C1: erase_in_display(n) and erase_in_line(n) signal invalid-argument and
\* return no string for every n outside {0, 1, 2}.
C1_ModeSelectorRejected ==
    (op \in EraseOps /\ args[1] \notin {0, 1, 2}) => raised

\* C2: cursor_hvp(y, x) is ESC [ y ; x f, and its terminator differs from
\* the terminator of cursor_pos(y, x).
C2_HvpTerminator ==
    (op = "cursor_hvp" /\ Len(args) = 2) =>
        /\ ~raised
        /\ Shape2(result, args[1], args[2], <<"f">>)
        /\ Last(result) # Last(cursor_pos(args))

\* the terminator the wire-format table gives each single-count function
C3_Terminator ==
    [cursor_up |-> "A", cursor_down |-> "B", cursor_forward |-> "C",
     cursor_backward |-> "D", cursor_horz_abs |-> "G", cursor_vert_abs |-> "d",
     scroll_up |-> "S", scroll_down |-> "T", insert_character |-> "@",
     delete_character |-> "P", erase_character |-> "X", insert_line |-> "L",
     delete_line |-> "M"]

\* C3: each single-count function of the wire-format table, called with n,
\* returns exactly ESC [ + decimal n + its own terminator.
C3_SingleCountFormat ==
    (op \in DOMAIN C3_Terminator /\ Len(args) = 1) =>
        /\ ~raised
        /\ Shape1(result, args[1], <<C3_Terminator[op]>>)

C3_Witness ==
    /\ op = "delete_line"
    /\ args = <<12>>
    /\ result = <<"ESC", "[", "1", "2", "M">>

\* every parameter of o given as 1
Ones(o) == IF o \in PositionOps THEN <<1, 1>> ELSE <<1>>

\* C4: a call without arguments of a function with defaulted parameters
\* returns what the call with every parameter given as 1 returns;
\* cursor_up() is ESC [ 1 A.
C4_DefaultsAreOne ==
    (op \in SingleCountOps \cup PositionOps /\ args = << >>) =>
        /\ ~raised
        /\ result = Apply(op, Ones(op))
        /\ (op = "cursor_up" => result = <<"ESC", "[", "1", "A">>)

C4_Witness ==
    /\ op = "cursor_pos"
    /\ args = << >>
    /\ result = <<"ESC", "[", "1", ";", "1", "H">>

\* C5: cursor_pos(y, x) is ESC [ y ; x H, the row before the column, so
\* that swapping unequal arguments changes the string.
C5_CursorPosFormat ==
    (op = "cursor_pos" /\ Len(args) = 2) =>
        /\ ~raised
        /\ Shape2(result, args[1], args[2], <<"H">>)
        /\ (args[1] # args[2] => cursor_pos(<<args[2], args[1]>>) # result)

C5_Witness ==
    /\ op = "cursor_pos"
    /\ args = <<3, 10>>
    /\ result = <<"ESC", "[", "3", ";", "1", "0", "H">>

\* the code of each named cursor shape
C6_ShapeCode ==
    [user_shape |-> 0, blinking_block |-> 1, steady_block |-> 2,
     blinking_underline |-> 3, steady_underline |-> 4, blinking_bar |-> 5,
     steady_bar |-> 6]

\* C6: the seven named shape functions return decscusr of the codes 0 to 6,
\* decscusr(c) is ESC [ + decimal c + space + q, and the seven strings are
\* pairwise distinct.
C6_CursorShapes ==
    /\ op \in DOMAIN C6_ShapeCode =>
          /\ ~raised
          /\ result = decscusr(<<C6_ShapeCode[op]>>)
          /\ result = WireCSI \o <<DigitChars[C6_ShapeCode[op] + 1], " ", "q">>
          /\ \A o \in DOMAIN C6_ShapeCode \ {op} : Apply(o, << >>) # result
    /\ op = "decscusr" => (~raised /\ Shape1(result, args[1], <<" ", "q">>))

C6_Witness ==
    /\ op = "steady_bar"
    /\ result = <<"ESC", "[", "6", " ", "q">>

\* C7: every CSI-based function returns a string starting with ESC [, and
\* reverse_index, save_cursor and restore_cursor return exactly ESC M,
\* ESC 7 and ESC 8.
C7_PrefixComposition ==
    /\ (Called /\ op \notin PureEscOps) =>
          (~raised /\ Len(result) > 2 /\ SubSeq(result, 1, 2) = WireCSI)
    /\ op = "reverse_index" => (~raised /\ result = <<"ESC", "M">>)
    /\ op = "save_cursor" => (~raised /\ result = <<"ESC", "7">>)
    /\ op = "restore_cursor" => (~raised /\ result = <<"ESC", "8">>)

C7_Witness ==
    /\ op = "default"
    /\ result = <<"ESC", "[", "0", "m">>

\* the characters of r from the third up to the first that is no digit,
\* sign or semicolon
ParamSection(r) ==
    LET stops == {i \in 3 .. Len(r) : r[i] \notin ParamChars}
        stop == IF stops = {} THEN Len(r) + 1
                ELSE CHOOSE i \in stops : \A j \in stops : i <= j
    IN  SubSeq(r, 3, stop - 1)

\* p is the parameter section of a call with the arguments a
RendersArgs(p, a) ==
    IF Len(a) = 1 THEN IsDecimal(p, a[1])
    ELSE \E k \in 1 .. Len(p) :
            /\ p[k] = ";"
            /\ IsDecimal(SubSeq(p, 1, k - 1), a[1])
            /\ IsDecimal(SubSeq(p, k + 1, Len(p)), a[2])

\* the number of parameters of o
Arity(o) ==
    IF o \in PositionOps THEN 2
    ELSE IF o \in SingleCountOps \cup EraseOps \cup {"decscusr"} THEN 1
    ELSE 0

\* C8: a function called with integers for all its parameters returns, for
\* any values (zero and negatives too), ESC [ + the canonical decimal
\* renderings of the arguments + a terminator: no leading zero and no sign
\* for a positive argument, and no failure, clamping or default instead.
C8_ParameterVerbatim ==
    (Arity(op) >= 1 /\ Len(args) = Arity(op)) =>
        /\ ~raised
        /\ Len(result) > 2
        /\ SubSeq(result, 1, 2) = WireCSI
        /\ RendersArgs(ParamSection(result), args)
        /\ Len(ParamSection(result)) + 2 < Len(result)

C8_Witness ==
    /\ op = "cursor_forward"
    /\ args = <<0 - 2>>
    /\ result = <<"ESC", "[", "-", "2", "C">>

\* the latest call, made again now, returns what it returned
Repeatable == Called => (~raised /\ result = Apply(op, args))

\* C9: a call returns the same string whatever calls were made before it,
\* and ESC, CSI and OSC never change: no call rebinds a prefix, a call that
\* repeats the call before it returns the string that call returned, and
\* the call just made would return the same string if made once more.
C9_Deterministic ==
    [][/\ ESC' = ESC
       /\ CSI' = CSI
       /\ OSC' = OSC
       /\ (Called /\ op' = op /\ args' = args) => result' = result
       /\ Repeatable']_vars

C9_Witness ==
    /\ calls = 2
    /\ op = "cursor_up"
    /\ args = <<3>>
    /\ result = <<"ESC", "[", "3", "A">>

\* C10: for a fixed n the fifteen single-count functions return pairwise
\* different strings.
C10_Distinguishable ==
    (op \in SingleCountOps /\ Len(args) = 1) =>
        \A o \in SingleCountOps \ {op} : Apply(o, args) # result

=============================================================================
